---- MODULE Spec2Model ----
(***************************************************************************)
(* Model of best_gps_algorithm.cpp: haversine_distance and the loop of     *)
(* process_coordinates.                                                    *)
(*                                                                         *)
(* Numbers.  The program computes in IEEE-754 doubles.  The model keeps    *)
(* every double as a fixed-point integer:                                  *)
(*   - a latitude / longitude is its value in degrees times CoordScale;    *)
(*   - an angle in radians, a sine, a cosine is its value times FxScale;   *)
(*   - the haversine term `a` is its value times FxScale * FxScale;        *)
(*   - a distance is a whole number of metres.                             *)
(* Fixed-point division truncates toward zero (Quot), which is symmetric   *)
(* in the sign like the rounding of doubles.  sin, cos, atan2 and sqrt are *)
(* the <cmath> functions; they are modelled by their series / by the       *)
(* integer square root, accurate on the bounded inputs below.              *)
(* A quotient of a distance by an elapsed time is kept as an IEEE value:   *)
(* a finite ratio, an infinity or a NaN (division by zero).                *)
(***************************************************************************)
EXTENDS Integers, Sequences, FiniteSets, TLC

(* ------------------------------ bounds --------------------------------- *)

\* Longest input sequence explored.
MaxLen == 4

\* Input positions <<latitude, longitude>> in whole degrees, timestamps in
\* seconds.  The two positions are about 248.6 km apart: more than 200 m/s
\* over 500 s or 1000 s, less over 1500 s.
Positions == {<<0, 0>>, <<1, 2>>}
Times == {0, 500, 1000, 1500}

(* ------------------------- number representation ----------------------- *)

CoordScale == 2
FxScale == 10000
\* modulus of size_t arithmetic (the width TLC's integers can hold)
SizeMod == 65536

Abs(x) == IF x < 0 THEN -x ELSE x

\* division of doubles on fixed-point values: truncation toward zero
Quot(a, b) ==
    IF (a >= 0) = (b > 0) THEN Abs(a) \div Abs(b) ELSE -(Abs(a) \div Abs(b))

FxMul(a, b) == Quot(a * b, FxScale)

(* ------------------------------ <cmath> -------------------------------- *)

M_PI == 31416

\* sin(x) = x - x^3/3! + x^5/5!
sin(x) ==
    LET x2 == FxMul(x, x)
        x3 == FxMul(x2, x)
        x5 == FxMul(x3, x2)
    IN  x - Quot(x3, 6) + Quot(x5, 120)

\* cos(x) = 1 - x^2/2! + x^4/4!
cos(x) ==
    LET x2 == FxMul(x, x)
        x4 == FxMul(x2, x2)
    IN  FxScale - Quot(x2, 2) + Quot(x4, 24)

RECURSIVE SqrtIter(_, _, _)
\* largest r in lo..hi with r * r <= v (bisection)
SqrtIter(v, lo, hi) ==
    IF lo >= hi THEN lo
    ELSE LET mid == (lo + hi + 1) \div 2
         IN  IF mid * mid <= v THEN SqrtIter(v, mid, hi)
                               ELSE SqrtIter(v, lo, mid - 1)

\* sqrt of a value scaled by FxScale * FxScale, result scaled by FxScale
sqrt(v) == IF v <= 0 THEN 0 ELSE SqrtIter(v, 0, FxScale)

\* atan(t) = t - t^3/3 + t^5/5 for 0 <= t <= 1
atan(t) ==
    LET t2 == FxMul(t, t)
        t3 == FxMul(t2, t)
        t5 == FxMul(t3, t2)
    IN  t - Quot(t3, 3) + Quot(t5, 5)

\* atan2(y, x) for y >= 0, x >= 0 (the only arguments haversine passes)
atan2(y, x) ==
    IF y = 0 THEN 0
    ELSE IF x = 0 THEN Quot(M_PI, 2)
    ELSE IF y <= x THEN atan(Quot(y * FxScale, x))
    ELSE Quot(M_PI, 2) - atan(Quot(x * FxScale, y))

(* -------------------------- haversine_distance ------------------------- *)

R == 6371000

\* degrees (scaled by CoordScale) to radians (scaled by FxScale): d * M_PI / 180.0
ToRadians(d) == Quot(d * M_PI, 180 * CoordScale)

\* variant: the latitude difference formed with the wrong sign (lat2 + lat1)
haversine_distance_Sum(lat1, lon1, lat2, lon2) ==
    LET phi1 == ToRadians(lat1)
        phi2 == ToRadians(lat2)
        delta_phi == ToRadians(lat2 + lat1)
        delta_lambda == ToRadians(lon2 - lon1)
        sp == sin(Quot(delta_phi, 2))
        sl == sin(Quot(delta_lambda, 2))
        a == sp * sp + FxMul(FxMul(cos(phi1), cos(phi2)), sl) * sl
        c == 2 * atan2(sqrt(a), sqrt(FxScale * FxScale - a))
    IN  Quot(Quot(R, 100) * c, Quot(FxScale, 100))

haversine_distance(lat1, lon1, lat2, lon2) ==
    LET phi1 == ToRadians(lat1)
        phi2 == ToRadians(lat2)
        delta_phi == ToRadians(lat2 - lat1)
        delta_lambda == ToRadians(lon2 - lon1)
        sp == sin(Quot(delta_phi, 2))
        sl == sin(Quot(delta_lambda, 2))
        a == sp * sp + FxMul(FxMul(cos(phi1), cos(phi2)), sl) * sl
        c == 2 * atan2(sqrt(a), sqrt(FxScale * FxScale - a))
    IN  Quot(Quot(R, 100) * c, Quot(FxScale, 100))

(* ------------------------- IEEE-754 quotients -------------------------- *)

NaN == [kind |-> "nan", num |-> 0, den |-> 0]
PosInf == [kind |-> "inf", num |-> 1, den |-> 0]
NegInf == [kind |-> "inf", num |-> -1, den |-> 0]

\* double / (double) long long: x / 0 is an infinity, 0 / 0 is a NaN
Divide(d, dt) ==
    IF dt # 0 THEN [kind |-> "fin", num |-> d, den |-> dt]
    ELSE IF d > 0 THEN PosInf
    ELSE IF d < 0 THEN NegInf
    ELSE NaN

\* variant: the elapsed time taken in absolute value
GreaterThan_Abs(speed, k) ==
    CASE speed.kind = "nan" -> FALSE
      [] speed.kind = "inf" -> speed.num > 0
      [] OTHER -> speed.num > k * Abs(speed.den)

\* speed > k for a whole number k >= 0; every comparison with a NaN is false
GreaterThan(speed, k) ==
    CASE speed.kind = "nan" -> FALSE
      [] speed.kind = "inf" -> speed.num > 0
      [] OTHER -> IF speed.den > 0 THEN speed.num > k * speed.den
                                   ELSE speed.num < k * speed.den

(* -------------------------- process_coordinates ------------------------ *)

Threshold == 200

Coordinate ==
    {[lat |-> CoordScale * p[1], lon |-> CoordScale * p[2], time |-> t] :
        p \in Positions, t \in Times}

RECURSIVE SeqsUpTo(_, _)
\* all sequences over S of length at most n
SeqsUpTo(S, n) ==
    IF n = 0 THEN {<<>>}
    ELSE LET shorter == SeqsUpTo(S, n - 1)
         IN  shorter \cup {Append(s, x) : s \in {t \in shorter : Len(t) = n - 1}, x \in S}

Inputs == SeqsUpTo(Coordinate, MaxLen)

NullJson == [null |-> TRUE]

\* the locals of process_coordinates; pc is "loop" until the function
\* returns and "done" afterwards
VARIABLES coordinates, i, corrected_points, anomalies_detected,
          anomalies_corrected, output, pc

vars == <<coordinates, i, corrected_points, anomalies_detected,
          anomalies_corrected, output, pc>>

\* v[k] of a std::vector, k counted from 0
At(v, k) == v[k + 1]

\* coordinates.size() - 1 in size_t arithmetic
SizeMinusOne(n) == (n - 1) % SizeMod

\* i > 0 && i < coordinates.size() - 1
IsInterior(k, n) == k > 0 /\ k < SizeMinusOne(n)

speed_prev(v, k) ==
    LET distance_prev == haversine_distance(At(v, k).lat, At(v, k).lon,
                                            At(v, k - 1).lat, At(v, k - 1).lon)
    IN  Divide(distance_prev, At(v, k).time - At(v, k - 1).time)

speed_next(v, k) ==
    LET distance_next == haversine_distance(At(v, k).lat, At(v, k).lon,
                                            At(v, k + 1).lat, At(v, k + 1).lon)
    IN  Divide(distance_next, At(v, k + 1).time - At(v, k).time)

\* variant: only the speed from the previous element is tested
IsAnomalous_PrevOnly(v, k) == GreaterThan(speed_prev(v, k), Threshold)

\* speed_prev > 200.0 || speed_next > 200.0
IsAnomalous(v, k) ==
    GreaterThan(speed_prev(v, k), Threshold) \/ GreaterThan(speed_next(v, k), Threshold)

\* variant: the element itself taken in place of its previous neighbour
interpolated_point_Own(v, k) ==
    [lat |-> Quot(At(v, k).lat + At(v, k + 1).lat, 2),
     lon |-> Quot(At(v, k).lon + At(v, k + 1).lon, 2),
     time |-> At(v, k).time]

interpolated_point(v, k) ==
    [lat |-> Quot(At(v, k - 1).lat + At(v, k + 1).lat, 2),
     lon |-> Quot(At(v, k - 1).lon + At(v, k + 1).lon, 2),
     time |-> At(v, k).time]

Init ==
    /\ coordinates \in Inputs
    /\ i = 0
    /\ corrected_points = <<>>
    /\ anomalies_detected = 0
    /\ anomalies_corrected = 0
    /\ output = NullJson
    /\ pc = "loop"

\* variant: the first element pushed whatever the index
LoopEndpoint_First ==
    /\ pc = "loop"
    /\ i < Len(coordinates)
    /\ ~IsInterior(i, Len(coordinates))
    /\ corrected_points' = Append(corrected_points, At(coordinates, 0))
    /\ i' = i + 1
    /\ UNCHANGED <<coordinates, anomalies_detected, anomalies_corrected, output, pc>>

\* variant: the counters incremented outside the speed test
LoopEndpoint_Counted ==
    /\ pc = "loop"
    /\ i < Len(coordinates)
    /\ ~IsInterior(i, Len(coordinates))
    /\ anomalies_detected' = anomalies_detected + 1
    /\ corrected_points' = Append(corrected_points, At(coordinates, i))
    /\ anomalies_corrected' = anomalies_corrected + 1
    /\ i' = i + 1
    /\ UNCHANGED <<coordinates, output, pc>>

\* one iteration for the first or the last element: the outer else branch
LoopEndpoint ==
    /\ pc = "loop"
    /\ i < Len(coordinates)
    /\ ~IsInterior(i, Len(coordinates))
    /\ corrected_points' = Append(corrected_points, At(coordinates, i))
    /\ i' = i + 1
    /\ UNCHANGED <<coordinates, anomalies_detected, anomalies_corrected, output, pc>>

\* variant: the original element pushed as well (a missing else)
LoopAnomaly_PushBoth ==
    /\ pc = "loop"
    /\ i < Len(coordinates)
    /\ IsInterior(i, Len(coordinates))
    /\ IsAnomalous(coordinates, i)
    /\ anomalies_detected' = anomalies_detected + 1
    /\ corrected_points' =
           Append(Append(corrected_points, interpolated_point(coordinates, i)),
                  At(coordinates, i))
    /\ anomalies_corrected' = anomalies_corrected + 1
    /\ i' = i + 1
    /\ UNCHANGED <<coordinates, output, pc>>

\* variant: the correction is not counted
LoopAnomaly_NoCorrectedCount ==
    /\ pc = "loop"
    /\ i < Len(coordinates)
    /\ IsInterior(i, Len(coordinates))
    /\ IsAnomalous(coordinates, i)
    /\ anomalies_detected' = anomalies_detected + 1
    /\ corrected_points' = Append(corrected_points, interpolated_point(coordinates, i))
    /\ i' = i + 1
    /\ UNCHANGED <<coordinates, anomalies_corrected, output, pc>>

\* variant: the previous neighbour read from the sequence being built
LoopAnomaly_Cascade ==
    /\ pc = "loop"
    /\ i < Len(coordinates)
    /\ IsInterior(i, Len(coordinates))
    /\ IsAnomalous(coordinates, i)
    /\ anomalies_detected' = anomalies_detected + 1
    /\ corrected_points' =
           Append(corrected_points,
                  interpolated_point(corrected_points
                                       \o SubSeq(coordinates, i + 1, Len(coordinates)), i))
    /\ anomalies_corrected' = anomalies_corrected + 1
    /\ i' = i + 1
    /\ UNCHANGED <<coordinates, output, pc>>

\* one iteration for an interior element whose speed test fires
LoopAnomaly ==
    /\ pc = "loop"
    /\ i < Len(coordinates)
    /\ IsInterior(i, Len(coordinates))
    /\ IsAnomalous(coordinates, i)
    /\ anomalies_detected' = anomalies_detected + 1
    /\ corrected_points' = Append(corrected_points, interpolated_point(coordinates, i))
    /\ anomalies_corrected' = anomalies_corrected + 1
    /\ i' = i + 1
    /\ UNCHANGED <<coordinates, output, pc>>

\* one iteration for an interior element whose speed test does not fire
LoopKeep ==
    /\ pc = "loop"
    /\ i < Len(coordinates)
    /\ IsInterior(i, Len(coordinates))
    /\ ~IsAnomalous(coordinates, i)
    /\ corrected_points' = Append(corrected_points, At(coordinates, i))
    /\ i' = i + 1
    /\ UNCHANGED <<coordinates, anomalies_detected, anomalies_corrected, output, pc>>

\* loop exit: the output object is filled and returned
Return ==
    /\ pc = "loop"
    /\ ~(i < Len(coordinates))
    /\ output' = [corrected_points |-> corrected_points,
                  anomalies_detected |-> anomalies_detected,
                  anomalies_corrected |-> anomalies_corrected]
    /\ pc' = "done"
    /\ UNCHANGED <<coordinates, i, corrected_points, anomalies_detected,
                   anomalies_corrected>>

Next == LoopEndpoint \/ LoopAnomaly \/ LoopKeep \/ Return

Spec == Init /\ [][Next]_vars

(* ------------------- vocabulary of the properties ---------------------- *)

\* interior indices (counted from 0) of a sequence of n elements
InteriorIdx(n) == {k \in 0..(n - 1) : 0 < k /\ k < n - 1}

\* the positions an input element can have, as <<lat, lon>>
InputPositions == {<<CoordScale * p[1], CoordScale * p[2]>> : p \in Positions}

\* haversine_distance between any two input positions, computed once
DistanceOf ==
    [a \in InputPositions, b \in InputPositions |->
        haversine_distance(a[1], a[2], b[1], b[2])]

\* distance between two input elements
Dist(p, q) == DistanceOf[<<p.lat, p.lon>>, <<q.lat, q.lon>>]

\* distance / elapsed > 200.0, decided without forming the quotient:
\* a positive distance over no elapsed time is an infinite speed, 0 / 0
\* compares false, and a quotient by a negative elapsed time is not positive
Exceeds(d, dt) == (dt > 0 /\ d > 200 * dt) \/ (dt = 0 /\ d > 0)

DtPrev(v, k) == At(v, k).time - At(v, k - 1).time
DtNext(v, k) == At(v, k + 1).time - At(v, k).time

PrevExceeds(v, k) == Exceeds(Dist(At(v, k), At(v, k - 1)), DtPrev(v, k))
NextExceeds(v, k) == Exceeds(Dist(At(v, k), At(v, k + 1)), DtNext(v, k))

RuleAnomalous(v, k) == PrevExceeds(v, k) \/ NextExceeds(v, k)

\* p is the arithmetic midpoint of the neighbours of element k, at k's time
IsMidpoint(p, v, k) ==
    /\ 2 * p.lat = At(v, k - 1).lat + At(v, k + 1).lat
    /\ 2 * p.lon = At(v, k - 1).lon + At(v, k + 1).lon
    /\ p.time = At(v, k).time

Done == pc = "done"

(* ------------------------------- C1 ------------------------------------ *)

\* C1: the returned corrected_points has as many elements as the input,
\* for every input length (0 included); during the loop exactly one
\* element has been pushed per index visited.
C1_LengthPreserved ==
    /\ Len(corrected_points) = i
    /\ Done => Len(output.corrected_points) = Len(coordinates)

C1_Witness ==
    /\ Done
    /\ Len(coordinates) = 4
    /\ output.anomalies_detected = 1

(* ------------------------------- C2 ------------------------------------ *)

\* an iteration at the first or the last index
AtEndpoint ==
    /\ pc = "loop"
    /\ i < Len(coordinates)
    /\ (i = 0 \/ i = Len(coordinates) - 1)

C2_EndpointsKept ==
    /\ (i >= 1 => corrected_points[1] = coordinates[1])
    /\ (Done /\ Len(coordinates) > 0) =>
          /\ output.corrected_points[1] = coordinates[1]
          /\ output.corrected_points[Len(coordinates)] = coordinates[Len(coordinates)]

C2_EndpointStep ==
    AtEndpoint =>
        /\ corrected_points' = Append(corrected_points, At(coordinates, i))
        /\ anomalies_detected' = anomalies_detected
        /\ anomalies_corrected' = anomalies_corrected

\* C2: for every non-empty input the first and the last element of the
\* returned corrected_points equal the first and the last input element,
\* and an iteration at the first or last index pushes the element as it is
\* and leaves both counters alone, whatever the speed to its neighbour.
C2_EndpointInvariance == [](C2_EndpointsKept) /\ [][C2_EndpointStep]_vars

\* both endpoints are more than 200 m/s away from their only neighbour
C2_Witness ==
    /\ Done
    /\ Len(coordinates) = 3
    /\ Exceeds(Dist(coordinates[1], coordinates[2]),
               coordinates[2].time - coordinates[1].time)
    /\ Exceeds(Dist(coordinates[2], coordinates[3]),
               coordinates[3].time - coordinates[2].time)
    /\ output.corrected_points[1] = coordinates[1]
    /\ output.corrected_points[3] = coordinates[3]

(* ------------------------------- C3 ------------------------------------ *)

LoopStep == LoopEndpoint \/ LoopAnomaly \/ LoopKeep

\* C3: for an input of length 0, 1 or 2 the call runs to its return (a step
\* is always enabled until then), an empty input enables no loop iteration
\* (no element is read), every element pushed is the input element, both
\* counters stay 0, and the returned object holds the input and two zeros.
C3_ShortPassthrough ==
    Len(coordinates) <= 2 =>
        /\ anomalies_detected = 0
        /\ anomalies_corrected = 0
        /\ corrected_points = SubSeq(coordinates, 1, i)
        /\ (pc = "loop" => ENABLED Next)
        /\ (Len(coordinates) = 0 => ~ENABLED LoopStep)
        /\ Done => output = [corrected_points |-> coordinates,
                             anomalies_detected |-> 0,
                             anomalies_corrected |-> 0]

\* two elements more than 200 m/s apart, returned as they are
C3_Witness ==
    /\ Done
    /\ Len(coordinates) = 2
    /\ Exceeds(Dist(coordinates[1], coordinates[2]),
               coordinates[2].time - coordinates[1].time)
    /\ output.corrected_points = coordinates

(* ------------------------------- C4 ------------------------------------ *)

\* C4: after every iteration of the loop anomalies_detected equals
\* anomalies_corrected, and the two returned counters are equal.
C4_DetectedEqualsCorrected ==
    /\ anomalies_detected = anomalies_corrected
    /\ Done => output.anomalies_detected = output.anomalies_corrected

C4_Witness ==
    /\ Done
    /\ output.anomalies_detected = 2
    /\ output.anomalies_corrected = 2

(* ------------------------------- C5 ------------------------------------ *)

\* the iteration counts an anomaly
Flags == anomalies_detected' = anomalies_detected + 1

C5_FlaggedStep ==
    Flags =>
        /\ i \in InteriorIdx(Len(coordinates))
        /\ Len(corrected_points') = i + 1
        /\ IsMidpoint(corrected_points'[i + 1], coordinates, i)
        /\ SubSeq(corrected_points', 1, i) = corrected_points

\* C5: whenever an iteration classifies its (interior) index i anomalous,
\* the element it pushes at position i has the arithmetic mean of the
\* latitudes and of the longitudes of input[i-1] and input[i+1] and the
\* time of input[i]; the elements pushed are the ones returned.
C5_InterpolationCorrect ==
    [][C5_FlaggedStep]_vars /\ [](Done => output.corrected_points = corrected_points)

\* a flagged element that the midpoint moved
C5_Witness ==
    /\ Done
    /\ Len(coordinates) = 3
    /\ output.anomalies_detected = 1
    /\ coordinates[1].lat # coordinates[3].lat
    /\ output.corrected_points[2] # coordinates[2]
    /\ IsMidpoint(output.corrected_points[2], coordinates, 1)

(* ------------------------------- C6 ------------------------------------ *)

\* interior indices already visited by the loop
Visited == {k \in InteriorIdx(Len(coordinates)) : k < i}

\* C6: an interior element is replaced by the midpoint and counted exactly
\* when its speed to the previous or to the next element is > 200.0
\* (strictly); any other interior element is pushed unchanged; and the
\* returned anomalies_detected is the number of interior indices for which
\* the rule holds.
C6_ClassificationRule ==
    LET anomalous == {k \in Visited : RuleAnomalous(coordinates, k)}
    IN  /\ \A k \in Visited :
              IF k \in anomalous
              THEN IsMidpoint(corrected_points[k + 1], coordinates, k)
              ELSE corrected_points[k + 1] = coordinates[k + 1]
        /\ anomalies_detected = Cardinality(anomalous)
        /\ Done =>
              /\ Visited = InteriorIdx(Len(coordinates))
              /\ output.corrected_points = corrected_points
              /\ output.anomalies_detected = Cardinality(anomalous)

\* one interior element flagged, the other one moving (slower than 200 m/s)
\* and kept
C6_Witness ==
    /\ Done
    /\ Len(coordinates) = 4
    /\ output.anomalies_detected = 1
    /\ \E k \in InteriorIdx(4) :
          /\ ~RuleAnomalous(coordinates, k)
          /\ Dist(At(coordinates, k), At(coordinates, k - 1)) > 0
          /\ DtPrev(coordinates, k) > 0
          /\ output.corrected_points[k + 1] = coordinates[k + 1]

(* ------------------------------- C7 ------------------------------------ *)

\* the element pushed for index k is the one the input alone determines
FromOriginal(k) ==
    IF RuleAnomalous(coordinates, k)
    THEN IsMidpoint(corrected_points[k + 1], coordinates, k)
    ELSE corrected_points[k + 1] = coordinates[k + 1]

C7_NoCascadeState ==
    \A k \in Visited :
        (k - 1 \in Visited /\ corrected_points[k] # coordinates[k]) =>
            FromOriginal(k)

\* C7: an interior element that follows a replaced element is classified
\* and interpolated from the input elements i-1, i, i+1, not from the
\* replaced value (two adjacent anomalous elements each get the midpoint of
\* their original neighbours), and the input sequence is never modified.
C7_NoCascade == [](C7_NoCascadeState) /\ [][coordinates' = coordinates]_vars

\* two adjacent flagged elements, the first one moved by its replacement,
\* the second one different from what the replaced neighbour would give
C7_Witness ==
    /\ Done
    /\ Len(coordinates) = 4
    /\ output.anomalies_detected = 2
    /\ output.corrected_points[2] # coordinates[2]
    /\ IsMidpoint(output.corrected_points[3], coordinates, 2)
    /\ 2 * output.corrected_points[3].lat
          # output.corrected_points[2].lat + coordinates[4].lat

(* ------------------------------- C8 ------------------------------------ *)

\* policy (a): a speed term with no elapsed time is an infinite speed
InfiniteRule(v, k) ==
    \/ DtPrev(v, k) = 0
    \/ DtNext(v, k) = 0
    \/ PrevExceeds(v, k)
    \/ NextExceeds(v, k)

\* policy (b): a speed term with no elapsed time is skipped
SkipRule(v, k) ==
    \/ (DtPrev(v, k) # 0 /\ PrevExceeds(v, k))
    \/ (DtNext(v, k) # 0 /\ NextExceeds(v, k))

\* the returned object is the one the rule gives
Follows(Rule(_, _)) ==
    /\ \A k \in InteriorIdx(Len(coordinates)) :
          IF Rule(coordinates, k)
          THEN IsMidpoint(output.corrected_points[k + 1], coordinates, k)
          ELSE output.corrected_points[k + 1] = coordinates[k + 1]
    /\ output.anomalies_detected =
          Cardinality({k \in InteriorIdx(Len(coordinates)) : Rule(coordinates, k)})

\* C8: on every input the returned object is the one a single policy for
\* the speed terms with no elapsed time gives: either every such term forces
\* the anomaly, or every such term is skipped, whatever the distance to that
\* neighbour.
C8_SingleZeroDtPolicy ==
    Done => (Follows(InfiniteRule) \/ Follows(SkipRule))

(* ------------------------------- C9 ------------------------------------ *)

Stationary(v) ==
    \A a, b \in 1..Len(v) : v[a].lat = v[b].lat /\ v[a].lon = v[b].lon

Increasing(v) == \A a \in 1..(Len(v) - 1) : v[a].time < v[a + 1].time

\* C9: the distance of every input point to itself is 0; and when all input
\* points share one position and the timestamps increase strictly, all
\* distances are 0, the speeds at every interior index are 0, nothing is
\* counted, every element is pushed unchanged, and the returned object
\* holds the input and two zeros.
C9_StationaryUnchanged ==
    /\ \A a \in 1..Len(coordinates) : Dist(coordinates[a], coordinates[a]) = 0
    /\ (Stationary(coordinates) /\ Increasing(coordinates)) =>
          /\ \A a, b \in 1..Len(coordinates) :
                Dist(coordinates[a], coordinates[b]) = 0
          /\ \A k \in InteriorIdx(Len(coordinates)) :
                /\ speed_prev(coordinates, k).kind = "fin"
                /\ speed_prev(coordinates, k).num = 0
                /\ speed_next(coordinates, k).kind = "fin"
                /\ speed_next(coordinates, k).num = 0
          /\ anomalies_detected = 0
          /\ anomalies_corrected = 0
          /\ corrected_points = SubSeq(coordinates, 1, i)
          /\ Done => output = [corrected_points |-> coordinates,
                               anomalies_detected |-> 0,
                               anomalies_corrected |-> 0]

\* four fixes at latitude 1, longitude 2
C9_Witness ==
    /\ Done
    /\ Len(coordinates) = 4
    /\ Stationary(coordinates)
    /\ Increasing(coordinates)
    /\ coordinates[1].lat # 0
    /\ output.corrected_points = coordinates

(* ------------------------------- C10 ----------------------------------- *)

\* an iteration at an interior index with a timestamp going backwards
BackwardsStep ==
    /\ pc = "loop"
    /\ i \in InteriorIdx(Len(coordinates))
    /\ (DtPrev(coordinates, i) < 0 \/ DtNext(coordinates, i) < 0)

NonPositive(speed) == speed.kind = "fin" /\ speed.num * speed.den <= 0

\* the terms with elapsed time >= 0 decide
ForwardExceeds(v, k) ==
    \/ (DtPrev(v, k) >= 0 /\ PrevExceeds(v, k))
    \/ (DtNext(v, k) >= 0 /\ NextExceeds(v, k))

C10_BackwardsStep ==
    BackwardsStep =>
        /\ DtPrev(coordinates, i) < 0 => NonPositive(speed_prev(coordinates, i))
        /\ DtNext(coordinates, i) < 0 => NonPositive(speed_next(coordinates, i))
        /\ Flags <=> ForwardExceeds(coordinates, i)
        /\ ~Flags => /\ anomalies_detected' = anomalies_detected
                     /\ corrected_points' = Append(corrected_points, At(coordinates, i))

\* C10: when the timestamp decreases towards a neighbour, the speed to that
\* neighbour is not positive and does not make the interior element
\* anomalous, however far the neighbour is; the element is counted and
\* replaced only if the speed to its other neighbour exceeds 200.0.
C10_NegativeElapsedNeverFlags == [][C10_BackwardsStep]_vars

\* the middle element is 248 km from both neighbours, the first timestamp
\* goes back by 500 s, the second forward by 1500 s: not flagged
C10_Witness ==
    /\ Done
    /\ Len(coordinates) = 3
    /\ DtPrev(coordinates, 1) < 0
    /\ DtNext(coordinates, 1) > 0
    /\ Dist(coordinates[1], coordinates[2]) > 200000
    /\ Dist(coordinates[2], coordinates[3]) > 200000
    /\ output.anomalies_detected = 0
    /\ output.corrected_points = coordinates

====
